---------------------------- MODULE Spec2Model ----------------------------
(***************************************************************************)
(* Model of f5_tts_mlx/generate.py: one call of generate(), statement      *)
(* group by statement group, with the file system, the external calls it   *)
(* makes (in order) and the values of its local variables as the state.    *)
(*                                                                         *)
(* Units.  Times are counted in sample periods (1/SAMPLE_RATE s), so that  *)
(* ref_audio_duration (seconds) is audio.shape[0] periods and one frame is *)
(* HOP_LENGTH periods.  Levels (rms) are counted in hundredths.  Double    *)
(* arithmetic is modelled by exact rational arithmetic, except where an    *)
(* int() truncates a double whose exact value is a whole number: IEEE      *)
(* rounding may leave the double just short of it (see IntOfFloat and      *)
(* DoubleShortfalls).                                                      *)
(*                                                                         *)
(* A Python Optional is a set with at most one element: None is {}.        *)
(***************************************************************************)
EXTENDS Integers, Sequences, FiniteSets, TLC

VARIABLES
    req,                \* the arguments of generate()
    pc,                 \* the statement group to execute next
    err,                \* the exception that ended the call, "None" if none
    calls,              \* the external calls made so far, in order
    fs,                 \* the files generate() may write: path -> [writes, kind, len]
    data,               \* line 42: what pkgutil.get_data returned
    audio,              \* the reference clip: [len, rms]
    sr,                 \* its sample rate
    ref_audio_duration, \* line 59 (sample periods)
    rms,                \* line 62
    ref_audio_text,     \* the transcript in use
    text,               \* line 67: the text handed to the sampler
    ref_audio_len,      \* line 71
    ref_text_len,       \* line 73
    gen_text_len,       \* line 74
    duration_in_frames, \* line 75
    duration,           \* the duration in use (sample periods)
    frame_duration,     \* line 79
    wave,               \* the length of the waveform (sampler output, then trimmed)
    sampled             \* the length of the waveform the sampler returned

vars == <<req, pc, err, calls, fs, data, audio, sr, ref_audio_duration, rms,
          ref_audio_text, text, ref_audio_len, ref_text_len, gen_text_len,
          duration_in_frames, duration, frame_duration, wave, sampled>>

---------------------------------------------------------------------------
(* Module constants, lines 20-23. *)

SAMPLE_RATE == 24000

HOP_LENGTH == 256

\* 0.1, in hundredths
TARGET_RMS == 10

None == {}

Some(x) == {x}

Val(o) == CHOOSE x \in o : TRUE

\* the rms of an empty clip, or of a clip scaled by 0.1 / 0: not a number
NaN == -1

---------------------------------------------------------------------------
(* Bounds of the model. *)

\* the longest run of the pause-punctuation string in an input text
MaxPauseRuns == 2

\* how many frames the sampler's output may differ from the reference clip
MaxWaveDelta == 1

---------------------------------------------------------------------------
(* Texts are sequences of characters.  A character of the CJK block is      *)
(* named by a token (zh_...), every other character is itself.             *)

\* line 72: U+3002 U+FF0C U+3001 U+FF1B U+FF1A U+FF1F U+FF01, in this order
zh_pause_punc ==
    <<"zh_period", "zh_comma", "zh_enum_comma", "zh_semicolon", "zh_colon",
      "zh_question", "zh_exclamation">>

CJKChars ==
    {zh_pause_punc[i] : i \in 1..Len(zh_pause_punc)} \cup {"zh_ni", "zh_hao"}

\* line 51
DefaultRefText ==
    <<"S", "o", "m", "e", " ", "c", "a", "l", "l", " ", "m", "e", " ", "n", "a",
      "t", "u", "r", "e", ",", " ", "o", "t", "h", "e", "r", "s", " ", "c", "a",
      "l", "l", " ", "m", "e", " ", "m", "o", "t", "h", "e", "r", " ", "n", "a",
      "t", "u", "r", "e", ".">>

\* the temporary file of line 45
tmp_ref_audio_file == "/tmp/ref.wav"

\* str.encode('utf-8'): one byte for ASCII, three for a character of the CJK block
RECURSIVE Utf8Len(_)
Utf8Len(s) ==
    IF s = <<>> THEN 0
    ELSE (IF Head(s) \in CJKChars THEN 3 ELSE 1) + Utf8Len(Tail(s))

IsPrefix(p, s) ==
    /\ Len(p) <= Len(s)
    /\ \A i \in 1..Len(p) : s[i] = p[i]

\* len(re.findall(pattern, s)) for a pattern of literal characters: the number
\* of non-overlapping occurrences of the whole pattern, scanning left to right
RECURSIVE FindAllCount(_, _)
FindAllCount(pattern, s) ==
    IF Len(s) < Len(pattern) THEN 0
    ELSE IF IsPrefix(pattern, s)
         THEN 1 + FindAllCount(pattern, SubSeq(s, Len(pattern) + 1, Len(s)))
         ELSE FindAllCount(pattern, Tail(s))

\* lines 73-74
TextLen(s) == Utf8Len(s) + 3 * FindAllCount(zh_pause_punc, s)

---------------------------------------------------------------------------
(* Numbers. *)

Abs(n) == IF n < 0 THEN -n ELSE n

\* int(x) of a double x whose exact value is n / d (d > 0): truncation towards
\* zero; when the exact value is a whole number other than 0 and the double
\* fell short of it, the whole number before it
IntOfFloat(n, d, short) ==
    LET q   == Abs(n) \div d
        mag == IF short /\ Abs(n) % d = 0 /\ q > 0 THEN q - 1 ELSE q
    IN  IF n < 0 THEN -mag ELSE mag

\* line 63
NeedsScaling(r) == r # NaN /\ r < TARGET_RMS

\* line 64: the rms of audio * TARGET_RMS / rms
ScaledRms(r) == IF r = 0 THEN NaN ELSE (r * TARGET_RMS) \div r

\* a mutant of SampleRateOk: the check of line 55 left out
SampleRateUnchecked(rate) == TRUE

\* line 55
SampleRateOk(rate) == rate = SAMPLE_RATE

\* a mutant of UseHeuristic: the estimate also replaces a given duration
UseHeuristicAlways(dur) == TRUE

\* line 70
UseHeuristic(dur) == dur = None

\* a mutant of GeneratedFrames: the quotient rounded up instead of truncated
GeneratedFramesCeil(refFrames, refTextLen, genTextLen, sn, sd) ==
    LET n == refFrames * genTextLen * sd
        d == refTextLen * sn
    IN  IF n % d = 0 THEN n \div d ELSE (n \div d) + 1

\* a mutant of GeneratedFrames: multiplied by the speed instead of divided by it
GeneratedFramesTimesSpeed(refFrames, refTextLen, genTextLen, sn, sd) ==
    IntOfFloat(refFrames * genTextLen * sn, refTextLen * sd, FALSE)

\* line 75: int(ref_audio_len / ref_text_len * gen_text_len / speed), speed = sn / sd.
\* At every input of the model the double is the exact quotient or lies above the
\* whole number below it, so int() gives the exact quotient truncated.
GeneratedFrames(refFrames, refTextLen, genTextLen, sn, sd) ==
    IntOfFloat(refFrames * genTextLen * sd, refTextLen * sn, FALSE)

\* line 76: duration_in_frames / FRAMES_PER_SEC - ref_audio_duration
EstimatedDuration(frames, refDuration) == frames * HOP_LENGTH - refDuration

\* lines 76 and 79 in IEEE double arithmetic: the pairs <<audio.shape[0], frames>>,
\* among the inputs of the model, for which
\*     (n / 24000 + (frames / 93.75 - n / 24000)) * 93.75
\* evaluates to a double below frames.  For every other input of the model the
\* double of line 79 truncates to the exact quotient.
DoubleShortfalls ==
    {<<3 * SAMPLE_RATE, 395>>, <<3 * SAMPLE_RATE, 485>>, <<3 * SAMPLE_RATE, 491>>,
     <<3 * SAMPLE_RATE, 1967>>}

FallsShort(refDuration, dur) ==
    \E p \in DoubleShortfalls :
        refDuration = p[1] /\ dur = EstimatedDuration(p[2], p[1])

\* line 79: int((ref_audio_duration + duration) * FRAMES_PER_SEC)
FrameBudget(refDuration, dur) ==
    IntOfFloat(refDuration + dur, HOP_LENGTH, FallsShort(refDuration, dur))

\* a mutant of Trim: the length subtracted without the slice's clamp at 0
TrimUnclamped(waveLen, refLen) == waveLen - refLen

\* line 97: wave[audio.shape[0]:]
Trim(waveLen, refLen) == IF waveLen > refLen THEN waveLen - refLen ELSE 0

---------------------------------------------------------------------------
(* Inputs. *)

HelloWorld == <<"h", "e", "l", "l", "o", " ", "w", "o", "r", "l", "d">>

HiThere == <<"h", "i", " ", "t", "h", "e", "r", "e">>

NiHao == <<"zh_ni", "zh_hao", "zh_comma">>

RECURSIVE PauseRun(_)
PauseRun(k) == IF k = 0 THEN <<>> ELSE zh_pause_punc \o PauseRun(k - 1)

PauseTexts == {PauseRun(k) : k \in 0..MaxPauseRuns}

GenTexts == {HiThere, NiHao} \cup PauseTexts

RefTexts == {HelloWorld, NiHao} \cup PauseTexts

\* speed = numerator / denominator
Speeds == {<<0, 1>>, <<1, 2>>, <<1, 1>>, <<2, 1>>}

\* an explicit duration, in sample periods: 0 s, 0.5 s, 1 s
Durations == {0, SAMPLE_RATE \div 2, SAMPLE_RATE}

Paths == {tmp_ref_audio_file, "output.wav"}

Requests ==
    [generation_text : GenTexts,
     duration        : {None} \cup {Some(d) : d \in Durations},
     ref_audio_path  : {None, Some("ref.wav")},
     ref_audio_text  : {None} \cup {Some(t) : t \in RefTexts},
     speed           : Speeds,
     output_path     : Paths]

\* the clips a file may hold: [len, rms]
Clips ==
    {[len |-> 0, rms |-> NaN]}
        \cup [len : {38, 200, 3 * SAMPLE_RATE}, rms : {0, 5, 20}]

\* the bundled clip is recorded speech: neither empty nor silent
BundledClips == {c \in Clips : c.len > 0 /\ c.rms > 0}

SampleRates == {16000, SAMPLE_RATE}

\* the lengths of the waveform the sampler may return
WaveLens(refLen, frames) ==
    {n \in {0, frames * HOP_LENGTH}
            \cup {refLen + k * HOP_LENGTH : k \in -MaxWaveDelta..MaxWaveDelta} :
        n >= 0}

Absent == [writes |-> 0, kind |-> "absent", len |-> 0]

---------------------------------------------------------------------------
(* The state after the call is entered. *)

Init ==
    /\ req \in Requests
    /\ pc = "load_model"
    /\ err = "None"
    /\ calls = <<>>
    /\ fs = [p \in Paths |-> Absent]
    /\ data = "unset"
    /\ audio = None
    /\ sr = None
    /\ ref_audio_duration = None
    /\ rms = None
    /\ ref_audio_text = req.ref_audio_text
    /\ text = None
    /\ ref_audio_len = None
    /\ ref_text_len = None
    /\ gen_text_len = None
    /\ duration_in_frames = None
    /\ duration = req.duration
    /\ frame_duration = None
    /\ wave = None
    /\ sampled = None

\* an exception leaves generate()
Raise(e) ==
    /\ err' = e
    /\ pc' = "done"

Call(name) == calls' = Append(calls, name)

---------------------------------------------------------------------------
(* The statements of generate(), in order. *)

\* line 39: F5TTS.from_pretrained(model_name)
LoadModel ==
    /\ pc = "load_model"
    /\ Call("F5TTS.from_pretrained")
    /\ \/ pc' = "resolve_ref" /\ err' = err
       \/ Raise("OSError")
    /\ UNCHANGED <<req, fs, data, audio, sr, ref_audio_duration, rms,
                   ref_audio_text, text, ref_audio_len, ref_text_len,
                   gen_text_len, duration_in_frames, duration, frame_duration,
                   wave, sampled>>

\* lines 41-42: no reference path, so the bundled clip is looked up; the lookup
\* returns its bytes, returns None, or raises
GetDefaultData ==
    /\ pc = "resolve_ref"
    /\ req.ref_audio_path = None
    /\ Call("pkgutil.get_data")
    /\ \/ /\ data' \in {"bytes", "None"}
          /\ pc' = "write_tmp"
          /\ err' = err
       \/ /\ Raise("FileNotFoundError")
          /\ data' = data
    /\ UNCHANGED <<req, fs, audio, sr, ref_audio_duration, rms, ref_audio_text,
                   text, ref_audio_len, ref_text_len, gen_text_len,
                   duration_in_frames, duration, frame_duration, wave, sampled>>

\* lines 45-47: open("/tmp/ref.wav", "wb") creates or empties the file, then
\* f.write(data) fills it, or raises TypeError when data is None
WriteTmpRef ==
    /\ pc = "write_tmp"
    /\ Call("open")
    /\ \/ /\ data # "None"
          /\ fs' = [fs EXCEPT ![tmp_ref_audio_file] =
                        [writes |-> @.writes + 1, kind |-> "ref_clip", len |-> 0]]
          /\ pc' = "read_tmp"
          /\ err' = err
       \/ /\ data = "None"
          /\ fs' = [fs EXCEPT ![tmp_ref_audio_file] =
                        [writes |-> @.writes + 1, kind |-> "empty", len |-> 0]]
          /\ Raise("TypeError")
    /\ UNCHANGED <<req, data, audio, sr, ref_audio_duration, rms,
                   ref_audio_text, text, ref_audio_len, ref_text_len,
                   gen_text_len, duration_in_frames, duration, frame_duration,
                   wave, sampled>>

\* lines 49-51: the bundled clip is read back and its transcript replaces the
\* caller's
ReadTmpRef ==
    /\ pc = "read_tmp"
    /\ data # "None"
    /\ Call("sf.read")
    /\ audio' \in {Some(c) : c \in BundledClips}
    /\ sr' = Some(SAMPLE_RATE)
    /\ ref_audio_text' = Some(DefaultRefText)
    /\ pc' = "normalize_level"
    /\ UNCHANGED <<req, err, fs, data, ref_audio_duration, rms, text,
                   ref_audio_len, ref_text_len, gen_text_len, duration_in_frames,
                   duration, frame_duration, wave, sampled>>

\* line 54: sf.read(ref_audio_path)
ReadRefAudio ==
    /\ pc = "resolve_ref"
    /\ req.ref_audio_path # None
    /\ Call("sf.read")
    /\ \/ /\ audio' \in {Some(c) : c \in Clips}
          /\ sr' \in {Some(r) : r \in SampleRates}
          /\ pc' = "check_sr"
          /\ err' = err
       \/ /\ Raise("OSError")
          /\ UNCHANGED <<audio, sr>>
    /\ UNCHANGED <<req, fs, data, ref_audio_duration, rms, ref_audio_text, text,
                   ref_audio_len, ref_text_len, gen_text_len, duration_in_frames,
                   duration, frame_duration, wave, sampled>>

\* lines 55-56
CheckSampleRate ==
    /\ pc = "check_sr"
    /\ IF SampleRateOk(Val(sr))
       THEN pc' = "normalize_level" /\ err' = err
       ELSE Raise("ValueError")
    /\ UNCHANGED <<req, calls, fs, data, audio, sr, ref_audio_duration, rms,
                   ref_audio_text, text, ref_audio_len, ref_text_len,
                   gen_text_len, duration_in_frames, duration, frame_duration,
                   wave, sampled>>

\* lines 58-64: the clip's duration and level; a clip quieter than TARGET_RMS
\* is scaled by TARGET_RMS / rms
NormalizeLevel ==
    /\ pc = "normalize_level"
    /\ ref_audio_duration' = Some(Val(audio).len)
    /\ rms' = Some(Val(audio).rms)
    /\ audio' = IF NeedsScaling(Val(audio).rms)
                THEN Some([Val(audio) EXCEPT !.rms = ScaledRms(@)])
                ELSE audio
    /\ pc' = "normalize_text"
    /\ UNCHANGED <<req, err, calls, fs, data, sr, ref_audio_text, text,
                   ref_audio_len, ref_text_len, gen_text_len, duration_in_frames,
                   duration, frame_duration, wave, sampled>>

\* line 67: ref_audio_text + " " + generation_text raises TypeError when the
\* transcript is None; convert_char_to_pinyin is external and may raise
NormalizeText ==
    /\ pc = "normalize_text"
    /\ \/ /\ ref_audio_text = None
          /\ Raise("TypeError")
          /\ UNCHANGED <<calls, text>>
       \/ /\ ref_audio_text # None
          /\ Call("convert_char_to_pinyin")
          /\ \/ /\ text' = Some(Val(ref_audio_text) \o <<" ">> \o req.generation_text)
                /\ pc' = "duration"
                /\ err' = err
             \/ /\ Raise("Exception")
                /\ text' = text
    /\ UNCHANGED <<req, fs, data, audio, sr, ref_audio_duration, rms,
                   ref_audio_text, ref_audio_len, ref_text_len, gen_text_len,
                   duration_in_frames, duration, frame_duration, wave, sampled>>

\* lines 70-77: no duration was given, so it is estimated from the lengths of
\* the two texts; a division by zero raises ZeroDivisionError
EstimateDuration ==
    /\ pc = "duration"
    /\ UseHeuristic(req.duration)
    /\ LET frames == Val(audio).len \div HOP_LENGTH
           rlen   == TextLen(Val(ref_audio_text))
           glen   == TextLen(req.generation_text)
           sn     == req.speed[1]
           sd     == req.speed[2]
       IN  /\ ref_audio_len' = Some(frames)
           /\ ref_text_len' = Some(rlen)
           /\ gen_text_len' = Some(glen)
           /\ IF rlen = 0 \/ sn = 0
              THEN /\ Raise("ZeroDivisionError")
                   /\ UNCHANGED <<duration_in_frames, duration>>
              ELSE /\ duration_in_frames' =
                        Some(frames + GeneratedFrames(frames, rlen, glen, sn, sd))
                   /\ duration' =
                        Some(EstimatedDuration(Val(duration_in_frames'),
                                               Val(ref_audio_duration)))
                   /\ pc' = "budget"
                   /\ err' = err
    /\ UNCHANGED <<req, calls, fs, data, audio, sr, ref_audio_duration, rms,
                   ref_audio_text, text, frame_duration, wave, sampled>>

\* line 70, the other branch: the caller's duration is used as it is
UseGivenDuration ==
    /\ pc = "duration"
    /\ ~UseHeuristic(req.duration)
    /\ pc' = "budget"
    /\ UNCHANGED <<req, err, calls, fs, data, audio, sr, ref_audio_duration, rms,
                   ref_audio_text, text, ref_audio_len, ref_text_len,
                   gen_text_len, duration_in_frames, duration, frame_duration,
                   wave, sampled>>

\* line 79
ComputeFrameBudget ==
    /\ pc = "budget"
    /\ frame_duration' = Some(FrameBudget(Val(ref_audio_duration), Val(duration)))
    /\ pc' = "load_vocoder"
    /\ UNCHANGED <<req, err, calls, fs, data, audio, sr, ref_audio_duration, rms,
                   ref_audio_text, text, ref_audio_len, ref_text_len,
                   gen_text_len, duration_in_frames, duration, wave, sampled>>

\* line 83: Vocos.from_pretrained(...)
LoadVocoder ==
    /\ pc = "load_vocoder"
    /\ Call("Vocos.from_pretrained")
    /\ \/ pc' = "sample" /\ err' = err
       \/ Raise("OSError")
    /\ UNCHANGED <<req, fs, data, audio, sr, ref_audio_duration, rms,
                   ref_audio_text, text, ref_audio_len, ref_text_len,
                   gen_text_len, duration_in_frames, duration, frame_duration,
                   wave, sampled>>

\* lines 85-94: f5tts.sample(...), external: it returns a waveform or raises
Sample ==
    /\ pc = "sample"
    /\ Call("f5tts.sample")
    /\ \/ /\ wave' \in {Some(n) : n \in WaveLens(Val(audio).len, Val(frame_duration))}
          /\ sampled' = wave'
          /\ pc' = "trim"
          /\ err' = err
       \/ /\ Raise("Exception")
          /\ UNCHANGED <<wave, sampled>>
    /\ UNCHANGED <<req, fs, data, audio, sr, ref_audio_duration, rms,
                   ref_audio_text, text, ref_audio_len, ref_text_len,
                   gen_text_len, duration_in_frames, duration, frame_duration>>

\* lines 97-98
TrimReference ==
    /\ pc = "trim"
    /\ wave' = Some(Trim(Val(wave), Val(audio).len))
    /\ pc' = "write"
    /\ UNCHANGED <<req, err, calls, fs, data, audio, sr, ref_audio_duration, rms,
                   ref_audio_text, text, ref_audio_len, ref_text_len,
                   gen_text_len, duration_in_frames, duration, frame_duration, sampled>>

\* line 103: sf.write(output_path, wave, SAMPLE_RATE), or the path is unwritable
WriteOutput ==
    /\ pc = "write"
    /\ Call("sf.write")
    /\ \/ /\ fs' = [fs EXCEPT ![req.output_path] =
                        [writes |-> @.writes + 1, kind |-> "wave", len |-> Val(wave)]]
          /\ pc' = "done"
          /\ err' = err
       \/ /\ Raise("OSError")
          /\ fs' = fs
    /\ UNCHANGED <<req, data, audio, sr, ref_audio_duration, rms, ref_audio_text,
                   text, ref_audio_len, ref_text_len, gen_text_len,
                   duration_in_frames, duration, frame_duration, wave, sampled>>

Next ==
    \/ LoadModel
    \/ GetDefaultData
    \/ WriteTmpRef
    \/ ReadTmpRef
    \/ ReadRefAudio
    \/ CheckSampleRate
    \/ NormalizeLevel
    \/ NormalizeText
    \/ EstimateDuration
    \/ UseGivenDuration
    \/ ComputeFrameBudget
    \/ LoadVocoder
    \/ Sample
    \/ TrimReference
    \/ WriteOutput

Spec == Init /\ [][Next]_vars

---------------------------------------------------------------------------
(* The claims. *)

Called(name) == \E i \in 1..Len(calls) : calls[i] = name

OutputFile == fs[req.output_path]

\* a reference path was given and the file read has another rate than 24000 Hz
SampleRateMismatch ==
    /\ req.ref_audio_path # None
    /\ sr # None
    /\ Val(sr) # SAMPLE_RATE

\* C1, as stated: with a reference file of another sample rate, generate fails
\* with the invalid-input error (ValueError) before any model operation, the
\* model load by name included, and the output file is never written.
C1_FailsBeforeAnyModelOperation ==
    SampleRateMismatch =>
        /\ pc \in {"check_sr", "done"}
        /\ pc = "done" => err = "ValueError"
        /\ \A op \in {"F5TTS.from_pretrained", "Vocos.from_pretrained", "f5tts.sample"} :
              ~Called(op)
        /\ OutputFile.writes = 0

\* C1, amended: with a reference file of another sample rate, generate fails
\* with ValueError before the vocoder is loaded and before the sampler is called,
\* and the output file is never written; the model has been loaded by name
\* before the file was read.
C1_FailsBeforeSampling ==
    SampleRateMismatch =>
        /\ pc \in {"check_sr", "done"}
        /\ pc = "done" => err = "ValueError"
        /\ calls = <<"F5TTS.from_pretrained", "sf.read">>
        /\ OutputFile.writes = 0

C1_Witness ==
    /\ SampleRateMismatch
    /\ Val(sr) = 16000
    /\ pc = "done"
    /\ err = "ValueError"

\* C2: the file at output_path is written at most once, only after the
\* reference was loaded and levelled, the text normalised, the frame budget
\* computed and the sampler returned; after a failure nothing has been written
\* to output_path.
C2_OutputWrittenOnceAtTheEnd ==
    /\ OutputFile.writes <= 1
    /\ OutputFile.writes = 1 =>
          /\ pc = "done"
          /\ err = "None"
          /\ rms # None
          /\ text # None
          /\ frame_duration # None
          /\ sampled # None
    /\ err # "None" => OutputFile.writes = 0

\* no reference path was given and the lookup of the bundled clip returned
\* None or raised
DefaultClipAbsent ==
    /\ req.ref_audio_path = None
    /\ \/ data = "None"
       \/ data = "unset" /\ err = "FileNotFoundError"

\* the exceptions that report a missing resource
ResourceMissingErrors == {"FileNotFoundError"}

\* C3: without a reference path and without the bundled clip, generate fails
\* with a resource-missing error, never calls the sampler, never writes the
\* output file and uses no clip.
C3_MissingDefaultClipFails ==
    DefaultClipAbsent =>
        /\ pc = "done" => err \in ResourceMissingErrors
        /\ ~Called("f5tts.sample")
        /\ OutputFile.writes = 0
        /\ audio = None

\* the scenario of C4, once the duration has been estimated
C4_Scenario ==
    /\ req.ref_audio_path # None
    /\ req.duration = None
    /\ req.speed = <<1, 1>>
    /\ req.generation_text = HiThere
    /\ ref_audio_text = Some(HelloWorld)
    /\ audio # None
    /\ Val(audio).len = 72000
    /\ duration_in_frames # None

\* a duration d (sample periods) is h hundredths of a second, to two decimals
ApproxSeconds(d, h) == 2 * Abs(100 * d - h * SAMPLE_RATE) <= SAMPLE_RATE

\* C4, as stated: in the scenario ref_frames = 281, generated_frames = 204 and
\* duration_seconds = (281 + 204) / 93.75 - 3.0, which is about 1.17 s.
C4_ScenarioArithmetic ==
    C4_Scenario =>
        /\ ref_audio_len = Some(281)
        /\ Val(duration_in_frames) - Val(ref_audio_len) = 204
        /\ Val(duration) = (281 + 204) * HOP_LENGTH - 3 * SAMPLE_RATE
        /\ ApproxSeconds(Val(duration), 117)

\* C4, amended: in the scenario ref_frames = 281, generated_frames = 204 and
\* duration_seconds = (281 + 204) / 93.75 - 3.0, which is about 2.17 s.
C4_ScenarioArithmeticAmended ==
    C4_Scenario =>
        /\ ref_audio_len = Some(281)
        /\ Val(duration_in_frames) - Val(ref_audio_len) = 204
        /\ Val(duration) = (281 + 204) * HOP_LENGTH - 3 * SAMPLE_RATE
        /\ ApproxSeconds(Val(duration), 217)

C4_Witness ==
    /\ C4_Scenario
    /\ pc = "budget"
    /\ duration_in_frames = Some(485)

\* C5, as stated: the length of the waveform written is the length of the
\* sampler's waveform minus the number of reference samples, also when the
\* sampler's waveform is shorter than the reference clip.
C5_WrittenLengthIsDifference ==
    OutputFile.kind = "wave" =>
        OutputFile.len = Val(sampled) - Val(audio).len

\* C5, amended: the length of the waveform written is the length of the
\* sampler's waveform minus the number of reference samples when the sampler's
\* waveform is at least as long as the reference clip, and 0 when it is shorter.
C5_WrittenLengthIsClampedDifference ==
    OutputFile.kind = "wave" =>
        OutputFile.len =
            IF Val(sampled) >= Val(audio).len
            THEN Val(sampled) - Val(audio).len
            ELSE 0

C5_Witness ==
    /\ OutputFile.kind = "wave"
    /\ Val(sampled) < Val(audio).len
    /\ OutputFile.len = 0

\* C6: a clip whose rms is exactly 0 is never scaled by TARGET_RMS / 0 and
\* then handed to the sampler.
C6_NoScalingByZeroRms ==
    ~(/\ rms = Some(0)
      /\ Val(audio).rms = NaN
      /\ Called("f5tts.sample"))

PositiveSpeeds == {s \in Speeds : s[1] > 0}

SpeedLeq(s1, s2) == s1[1] * s2[2] <= s2[1] * s1[2]

\* C7: with the clip and the two texts fixed, the estimated number of generated
\* frames and the estimated duration at a higher speed are never greater than
\* those at a lower speed: the estimate made is compared with the estimate at
\* every other positive speed.
C7_MonotonicInSpeed ==
    (duration_in_frames # None /\ req.speed \in PositiveSpeeds) =>
        LET g == Val(duration_in_frames) - Val(ref_audio_len)
        IN  \A s \in PositiveSpeeds :
                LET gs == GeneratedFrames(Val(ref_audio_len), Val(ref_text_len),
                                          Val(gen_text_len), s[1], s[2])
                    ds == EstimatedDuration(Val(ref_audio_len) + gs,
                                            Val(ref_audio_duration))
                IN  /\ SpeedLeq(req.speed, s) => gs <= g /\ ds <= Val(duration)
                    /\ SpeedLeq(s, req.speed) => g <= gs /\ Val(duration) <= ds

C7_Witness ==
    /\ duration_in_frames # None
    /\ req.speed = <<2, 1>>
    /\ Val(duration_in_frames) - Val(ref_audio_len) <
          GeneratedFrames(Val(ref_audio_len), Val(ref_text_len),
                          Val(gen_text_len), 1, 1)

\* the number of characters of s that are pause punctuation, each counted
CountPauseChars(s) ==
    Cardinality({i \in 1..Len(s) :
                    s[i] \in {zh_pause_punc[j] : j \in 1..Len(zh_pause_punc)}})

\* C8: the text length used by the heuristic is the UTF-8 byte length of the
\* text plus 3 for every character of the text that is one of the seven
\* pause-punctuation characters, for the transcript and the generation text.
C8_TextLenCountsEachPauseChar ==
    ref_text_len # None =>
        /\ Val(ref_text_len) =
              Utf8Len(Val(ref_audio_text)) + 3 * CountPauseChars(Val(ref_audio_text))
        /\ Val(gen_text_len) =
              Utf8Len(req.generation_text) + 3 * CountPauseChars(req.generation_text)

\* C9: the frame budget is the whole number nearest to
\* (reference samples + 24000 * duration) / 256.
C9_BudgetIsRounded ==
    frame_duration # None =>
        2 * Abs(Val(frame_duration) * HOP_LENGTH
                    - (Val(ref_audio_duration) + Val(duration))) <= HOP_LENGTH

\* C10: with a duration given, the heuristic is skipped (none of its values is
\* computed) and the frame budget is that of the reference sample count and
\* the given duration, whatever the speed and the two texts.
C10_GivenDurationUsedDirectly ==
    (req.duration # None /\ frame_duration # None) =>
        /\ duration = req.duration
        /\ frame_duration = Some(FrameBudget(Val(audio).len, Val(req.duration)))
        /\ ref_audio_len = None
        /\ ref_text_len = None
        /\ gen_text_len = None
        /\ duration_in_frames = None

C10_Witness ==
    /\ req.duration = Some(SAMPLE_RATE)
    /\ req.speed = <<2, 1>>
    /\ req.generation_text = NiHao
    /\ audio # None
    /\ Val(audio).len = 72000
    /\ frame_duration = Some(375)

=============================================================================
